---- MODULE Spec2Model ----
(***************************************************************************)
(* Model of api_stream_proxy (mobile/src-tauri/src/api_proxy.rs): the SSE  *)
(* streaming relay.  A call validates the method, spawns a background task *)
(* and returns the stream id; the task sends the request, folds the        *)
(* response chunks into a line buffer, re-frames `data:` lines and emits   *)
(* stream-chunk / stream-end / stream-error events to the event sink.      *)
(*                                                                         *)
(* Text is a sequence of one-character strings.  Bytes on the wire are the *)
(* same tokens, except that the two-byte character U+00E9 travels as the   *)
(* bytes "xC3" "xA9" and is the single character "U+E9" once decoded.      *)
(***************************************************************************)
EXTENDS Integers, Sequences, FiniteSets, TLC

(***************************************************************************)
(* Bounds and input vocabularies                                           *)
(***************************************************************************)

\* Largest number of lines in an upstream response body.
MaxLines == 2

\* The stream ids uuid::Uuid::new_v4 can mint in one run of Spec.
SoloHandles == {"h1"}

Str_data == <<"d", "a", "t", "a", ":">>

\* The lines an upstream body is built from (bytes, without terminator).
BodyLines ==
    { <<>>,                                        \* blank
      Str_data,                                    \* bare label
      Str_data \o <<" ", "x">>,                    \* label with value
      <<" ">> \o Str_data \o <<"xC3", "xA9", " ">>, \* padded label, 2-byte value
      <<"{", "}">>,                                \* bare JSON object
      <<":", "c">>,                                \* comment
      <<"e", ":", "p">> }                          \* other SSE field

\* Request methods the caller may pass (text).
Methods ==
    { <<"G", "E", "T">>, <<"p", "o", "s", "t">>, <<"P", "u", "t">>,
      <<"D", "E", "L", "E", "T", "E">>, <<"P", "A", "T", "C", "H">>,
      <<"H", "E", "A", "D">>, <<"O", "P", "T", "I", "O", "N", "S">>,
      <<"T", "R", "A", "C", "E">>, <<"t", "r", "a", "c", "e">>, <<>> }

\* HTTP status codes the upstream may answer with.
Statuses == {200, 400, 404, 500}

(***************************************************************************)
(* Text helpers (Rust std)                                                 *)
(***************************************************************************)

\* char::is_whitespace, on the characters of the model
IsWhitespace(c) == c \in {" ", "\t", "\r", "\n"}

Drop(s, n) == SubSeq(s, n + 1, Len(s))

Take(s, n) == SubSeq(s, 1, n)

RECURSIVE TrimStart(_)
TrimStart(s) ==
    IF s # <<>> /\ IsWhitespace(Head(s)) THEN TrimStart(Tail(s)) ELSE s

RECURSIVE TrimEnd(_)
TrimEnd(s) ==
    IF s # <<>> /\ IsWhitespace(s[Len(s)]) THEN TrimEnd(Take(s, Len(s) - 1)) ELSE s

\* str::trim
Trim(s) == TrimEnd(TrimStart(s))

\* str::starts_with
StartsWith(s, p) == Len(s) >= Len(p) /\ Take(s, Len(p)) = p

\* str::ends_with
EndsWith(s, p) == Len(s) >= Len(p) /\ Drop(s, Len(s) - Len(p)) = p

\* char::to_uppercase on ASCII letters
UpperChar(c) ==
    CASE c = "a" -> "A" [] c = "c" -> "C" [] c = "d" -> "D" [] c = "e" -> "E"
      [] c = "g" -> "G" [] c = "h" -> "H" [] c = "i" -> "I" [] c = "l" -> "L"
      [] c = "n" -> "N" [] c = "o" -> "O" [] c = "p" -> "P" [] c = "r" -> "R"
      [] c = "s" -> "S" [] c = "t" -> "T" [] c = "u" -> "U"
      [] OTHER -> c

\* str::to_uppercase
ToUppercase(s) == [i \in 1..Len(s) |-> UpperChar(s[i])]

\* Index of the first "\n" of s, 0 when there is none.
RECURSIVE FindNewline(_, _)
FindNewline(s, i) ==
    IF i > Len(s) THEN 0
    ELSE IF s[i] = "\n" THEN i
    ELSE FindNewline(s, i + 1)

\* str::lines: split after every "\n"; a piece loses its "\n" and then a
\* "\r" before it; a last piece without "\n" is kept as it is.
RECURSIVE Lines(_)
Lines(s) ==
    IF s = <<>> THEN <<>>
    ELSE LET n == FindNewline(s, 1) IN
         IF n = 0 THEN <<s>>
         ELSE LET piece == Take(s, n - 1)
                  line == IF EndsWith(piece, <<"\r">>)
                          THEN Take(piece, Len(piece) - 1)
                          ELSE piece
              IN  <<line>> \o Lines(Drop(s, n))

\* String::from_utf8: a lead byte must be followed by its continuation
\* byte, and a continuation byte must follow a lead byte.
RECURSIVE ValidUtf8(_)
ValidUtf8(b) ==
    IF b = <<>> THEN TRUE
    ELSE IF Head(b) = "xC3" THEN Len(b) >= 2 /\ b[2] = "xA9" /\ ValidUtf8(Drop(b, 2))
    ELSE IF Head(b) = "xA9" THEN FALSE
    ELSE ValidUtf8(Tail(b))

RECURSIVE DecodeUtf8(_)
DecodeUtf8(b) ==
    IF b = <<>> THEN <<>>
    ELSE IF Head(b) = "xC3" THEN <<"U+E9">> \o DecodeUtf8(Drop(b, 2))
    ELSE <<Head(b)>> \o DecodeUtf8(Tail(b))

(***************************************************************************)
(* Events and the event sink                                               *)
(***************************************************************************)

\* One call of app.emit.  `ok` is the Result the sink gave back to a
\* stream-chunk emit (the Result of a terminal signal is dropped by `let _`
\* and not drawn: ok is TRUE there); `line` is the number, within the body,
\* of the line whose text went into `data`, 0 for the terminal signals.
Event(name, stream_id, data, ok, line) ==
    [event |-> name, stream_id |-> stream_id, data |-> data, ok |-> ok, line |-> line]

\* StreamChunk { stream_id, data: format!("{}\n", formatted_line) }
StreamChunk(stream_id, formatted_line, ok, line) ==
    Event("stream-chunk", stream_id, formatted_line \o <<"\n">>, ok, line)

\* format!("data: {}", value)
FormatData(value) == Str_data \o <<" ">> \o value

(***************************************************************************)
(* Line reassembly: one decoded chunk folded into the carry-over buffer    *)
(***************************************************************************)

\* The whole buffer kept, the lines already split off included.
Remaining_Whole(buf, lines_vec) == buf

\* let remaining = if !buffer.ends_with('\n') && !lines_vec.is_empty() ...
Remaining(buf, lines_vec) ==
    IF ~EndsWith(buf, <<"\n">>) /\ lines_vec # <<>>
    THEN lines_vec[Len(lines_vec)]
    ELSE <<>>

\* Every element of lines() processed, the unfinished last one included.
LinesToProcess_All(lines_vec, remaining) == lines_vec

\* let lines_to_process = if !remaining.is_empty() { all but the last } ...
LinesToProcess(lines_vec, remaining) ==
    IF remaining # <<>> THEN Take(lines_vec, Len(lines_vec) - 1) ELSE lines_vec

(***************************************************************************)
(* The per-line loop of one chunk                                          *)
(***************************************************************************)

\* if trimmed.is_empty() || trimmed.starts_with(':')
IsSkipped(trimmed) == trimmed = <<>> \/ StartsWith(trimmed, <<":">>)

\* if trimmed == "data:" || trimmed.starts_with("data:")
IsDataLine(trimmed) == trimmed = Str_data \/ StartsWith(trimmed, Str_data)

\* next_line.starts_with('{') || next_line.starts_with('[')
IsJsonStart(t) == StartsWith(t, <<"{">>) \/ StartsWith(t, <<"[">>)

\* The loop `while i < lines_to_process.len()`, from index i (1-based) on.
\* pending is pending_data_prefix, out the emit calls made so far in this
\* chunk, base the number of lines of earlier chunks, failAt the number of
\* the emit call of this chunk that returns Err (0: none does).
\* The result is the flag and the emit calls when the loop is left.
RECURSIVE ProcessLines(_, _, _, _, _, _, _)
ProcessLines(stream_id, lines, i, pending, out, base, failAt) ==
    IF i > Len(lines) THEN [pending |-> pending, out |-> out]
    ELSE
    LET line == lines[i]
        trimmed == Trim(line)
        ok == (Len(out) + 1 # failAt)
        \* emit, then `break` on Err, or `i += 1` and the next turn
        Emit(formatted_line, from, flag, next_i) ==
            LET out2 == Append(out, StreamChunk(stream_id, formatted_line, ok, base + from))
            IN  IF ok
                THEN ProcessLines(stream_id, lines, next_i, flag, out2, base, failAt)
                ELSE [pending |-> flag, out |-> out2]
    IN
    IF IsSkipped(trimmed)
    THEN ProcessLines(stream_id, lines, i + 1, pending, out, base, failAt)
    ELSE IF IsDataLine(trimmed)
    THEN IF trimmed = Str_data
         THEN IF i + 1 <= Len(lines)
              THEN LET next_line == Trim(lines[i + 1]) IN
                   IF IsJsonStart(next_line)
                   THEN Emit(FormatData(next_line), i + 1, pending, i + 2)
                   ELSE Emit(FormatData(next_line), i + 1, pending, i + 1)
              ELSE ProcessLines(stream_id, lines, i + 1, TRUE, out, base, failAt)
         ELSE LET json_trimmed == Trim(Drop(trimmed, Len(Str_data))) IN
              IF json_trimmed = <<>>
              THEN ProcessLines(stream_id, lines, i + 1, TRUE, out, base, failAt)
              ELSE Emit(FormatData(json_trimmed), i, pending, i + 1)
    ELSE IF pending /\ IsJsonStart(trimmed)
    THEN Emit(FormatData(trimmed), i, FALSE, i + 1)
    ELSE ProcessLines(stream_id, lines, i + 1, pending, out, base, failAt)

\* One Ok(chunk) whose bytes decode to text: push_str, lines, the loop.
FoldChunk(stream_id, buf0, pending, base, text, failAt) ==
    LET buf == buf0 \o text
        lines_vec == Lines(buf)
        remaining == Remaining(buf, lines_vec)
        lines_to_process == LinesToProcess(lines_vec, remaining)
        r == ProcessLines(stream_id, lines_to_process, 1, pending, <<>>, base, failAt)
    IN  [buffer |-> remaining, pending |-> r.pending, out |-> r.out,
         lines |-> Len(lines_to_process), lines_to_process |-> lines_to_process]

\* The remaining buffer emitted as it is, without the `data: ` label put in
\* front of a bare value.
FlushBuffer_Raw(stream_id, buf, base, ok) ==
    IF Trim(buf) # <<>> THEN <<StreamChunk(stream_id, buf, ok, base + 1)>> ELSE <<>>

\* "处理剩余的 buffer": what is emitted for the buffer left at end of input,
\* <<>> when `buffer.trim().is_empty()`.
FlushBuffer(stream_id, buf, base, ok) ==
    LET trimmed == Trim(buf)
        formatted == IF StartsWith(trimmed, Str_data) THEN buf
                     ELSE IF IsJsonStart(trimmed) THEN FormatData(trimmed)
                     ELSE buf
    IN  IF trimmed # <<>>
        THEN <<StreamChunk(stream_id, formatted, ok, base + 1)>>
        ELSE <<>>

(***************************************************************************)
(* Upstream bodies                                                         *)
(***************************************************************************)

\* The bodies made of exactly k lines, each ended by "\n".
RECURSIVE TerminatedBodies(_)
TerminatedBodies(k) ==
    IF k = 0 THEN {<<>>}
    ELSE {l \o <<"\n">> \o b : l \in BodyLines, b \in TerminatedBodies(k - 1)}

\* Every body of at most MaxLines lines; the last line may lack its "\n".
Bodies ==
    UNION {TerminatedBodies(k) : k \in 0..MaxLines}
    \cup UNION {{b \o l : b \in TerminatedBodies(k), l \in BodyLines \ {<<>>}} :
                k \in 0..(MaxLines - 1)}

\* Largest number of lines in a body of MergeSpec.
MaxMergeLines == 3

\* The lines of the label / value merge: blank, bare label, bare value,
\* comment.
MergeBodyLines == { <<>>, Str_data, <<"{", "}">>, <<":", "c">> }

RECURSIVE TerminatedMergeBodies(_)
TerminatedMergeBodies(k) ==
    IF k = 0 THEN {<<>>}
    ELSE {l \o <<"\n">> \o b : l \in MergeBodyLines, b \in TerminatedMergeBodies(k - 1)}

\* Every body of at most MaxMergeLines such lines; the last may lack its "\n".
MergeBodies ==
    UNION {TerminatedMergeBodies(k) : k \in 0..MaxMergeLines}
    \cup UNION {{b \o l : b \in TerminatedMergeBodies(k), l \in MergeBodyLines \ {<<>>}} :
                k \in 0..(MaxMergeLines - 1)}

\* The stream ids of two calls running side by side, and what they are
\* called with and answered: a label and its value on two lines, and a
\* record without its terminator.
IsolationHandles == {"h1", "h2"}

IsolationMethods == { <<"G", "E", "T">>, <<"T", "R", "A", "C", "E">> }

IsolationStatuses == {200, 500}

IsolationBodies ==
    { Str_data \o <<"\n", "{", "}", "\n">>,
      Str_data \o <<" ", "x">> }

(***************************************************************************)
(* State                                                                   *)
(***************************************************************************)

VARIABLES
    call,                 \* h -> "unused" | "built" | "spawned" | "returned" | "rejected"
    method,               \* h -> request.method while `request` is in use, or in the ApiError
    task,                 \* h -> "none" | "spawned" | "sending" | "streaming" | "done"
    status,               \* h -> response.status(), 0 before a response
    body,                 \* h -> the bytes of the response body
    upstream,             \* h -> the bytes the chunk source has not yielded yet
    buffer,               \* h -> the task's `buffer`
    pending_data_prefix,  \* h -> the task's `pending_data_prefix`
    lines_seen,           \* h -> number of lines the loop has been given so far
    yielded,              \* h -> every `lines_to_process` so far, joined, in order
    emitted               \* the calls of app.emit, in order

vars == <<call, method, task, status, body, upstream, buffer, pending_data_prefix,
          lines_seen, yielded, emitted>>

Handles == DOMAIN call

InitWith(handles) ==
    /\ call = [h \in handles |-> "unused"]
    /\ method = [h \in handles |-> <<>>]
    /\ task = [h \in handles |-> "none"]
    /\ status = [h \in handles |-> 0]
    /\ body = [h \in handles |-> <<>>]
    /\ upstream = [h \in handles |-> <<>>]
    /\ buffer = [h \in handles |-> <<>>]
    /\ pending_data_prefix = [h \in handles |-> FALSE]
    /\ lines_seen = [h \in handles |-> 0]
    /\ yielded = [h \in handles |-> <<>>]
    /\ emitted = <<>>

Init == InitWith(SoloHandles)

(***************************************************************************)
(* api_stream_proxy, the caller's side                                     *)
(***************************************************************************)

\* The method match of the buffered api_proxy, which also has HEAD and OPTIONS.
MethodSupported_Buffered(m) ==
    ToUppercase(m) \in { <<"G", "E", "T">>, <<"P", "O", "S", "T">>, <<"P", "U", "T">>,
                         <<"D", "E", "L", "E", "T", "E">>, <<"P", "A", "T", "C", "H">>,
                         <<"H", "E", "A", "D">>,
                         <<"O", "P", "T", "I", "O", "N", "S">> }

\* match request.method.to_uppercase().as_str() { "GET" => ... _ => Err }
MethodSupported(m) ==
    ToUppercase(m) \in { <<"G", "E", "T">>, <<"P", "O", "S", "T">>, <<"P", "U", "T">>,
                         <<"D", "E", "L", "E", "T", "E">>, <<"P", "A", "T", "C", "H">> }

\* The call as far as the request builder: a fresh stream id, the client,
\* the method match.  An unsupported method returns Err(ApiError) at once.
ApiStreamProxy(h, m) ==
    /\ call[h] = "unused"
    /\ method' = [method EXCEPT ![h] = m]
    /\ call' = [call EXCEPT ![h] = IF MethodSupported(m) THEN "built" ELSE "rejected"]
    /\ UNCHANGED <<task, status, body, upstream, buffer, pending_data_prefix, lines_seen, yielded,
                   emitted>>

\* Headers and body are added (the last use of `request`), the task is
\* spawned with the builder moved into it.
Spawn(h) ==
    /\ call[h] = "built"
    /\ call' = [call EXCEPT ![h] = "spawned"]
    /\ method' = [method EXCEPT ![h] = <<>>]
    /\ task' = [task EXCEPT ![h] = "spawned"]
    /\ UNCHANGED <<status, body, upstream, buffer, pending_data_prefix, lines_seen, yielded,
                   emitted>>

\* Ok(stream_id): the caller gets the handle.
ReturnHandle(h) ==
    /\ call[h] = "spawned"
    /\ call' = [call EXCEPT ![h] = "returned"]
    /\ UNCHANGED <<method, task, status, body, upstream, buffer, pending_data_prefix,
                   lines_seen, yielded, emitted>>

(***************************************************************************)
(* The background task                                                     *)
(***************************************************************************)

\* The emit of stream-error left out.
EmitStreamError_Dropped(log, h, error) == log

\* app_clone.emit("stream-error", StreamError { stream_id, error })
EmitStreamError(log, h, error) ==
    Append(log, Event("stream-error", h, error, TRUE, 0))

\* stream-end sent under the id of the first stream, not the task's own.
EmitStreamEnd_FixedId(log, h) ==
    Append(log, Event("stream-end", "h1", <<>>, TRUE, 0))

\* app_clone.emit("stream-end", StreamEnd { stream_id })
EmitStreamEnd(log, h) ==
    Append(log, Event("stream-end", h, <<>>, TRUE, 0))

\* The comparison off by one: 400 itself passes as a success.
IsHttpError_Above(st) == st > 400

\* if status >= 400
IsHttpError(st) == st >= 400

\* The `return` left out: the task goes on to read the body.
AfterHttpError_NoReturn == "streaming"

\* Where the task stands after the `status >= 400` branch: `return`.
AfterHttpError == "done"

\* The `return` left out of the chunk error arms: the task stays in its loop.
AfterChunkError_NoReturn == "streaming"

\* Where the task stands after the decode error arm and the read error arm:
\* `return`.
AfterChunkError == "done"

\* The task's future completes: its locals (the response stream, `buffer`,
\* `pending_data_prefix`) are dropped.
TaskEnds(h, pc) ==
    /\ task' = [task EXCEPT ![h] = pc]
    /\ upstream' = [upstream EXCEPT ![h] = <<>>]
    /\ buffer' = [buffer EXCEPT ![h] = <<>>]
    /\ pending_data_prefix' = [pending_data_prefix EXCEPT ![h] = FALSE]
    /\ lines_seen' = [lines_seen EXCEPT ![h] = 0]
    /\ yielded' = [yielded EXCEPT ![h] = <<>>]

\* The spawned task starts: req_builder.send() is called.
Dispatch(h) ==
    /\ task[h] = "spawned"
    /\ task' = [task EXCEPT ![h] = "sending"]
    /\ UNCHANGED <<call, method, status, body, upstream, buffer, pending_data_prefix,
                   lines_seen, yielded, emitted>>

\* send().await gives Err(err).
SendFails(h) ==
    /\ task[h] = "sending"
    /\ emitted' = EmitStreamError(emitted, h, <<"HTTP request failed">>)
    /\ TaskEnds(h, "done")
    /\ UNCHANGED <<call, method, status, body>>

\* send().await gives Ok(response), of this status and with this body to come.
RespondWith(h, st, b) ==
    /\ status' = [status EXCEPT ![h] = st]
    /\ body' = [body EXCEPT ![h] = b]
    /\ IF IsHttpError(st)
       THEN /\ emitted' = EmitStreamError(emitted, h, <<"HTTP Error: ", ToString(st)>>)
            /\ TaskEnds(h, AfterHttpError)
       ELSE /\ emitted' = emitted
            /\ task' = [task EXCEPT ![h] = "streaming"]
            /\ upstream' = [upstream EXCEPT ![h] = b]
            /\ UNCHANGED <<buffer, pending_data_prefix, lines_seen, yielded>>
    /\ UNCHANGED <<call, method>>

Respond(h) ==
    /\ task[h] = "sending"
    /\ \E st \in Statuses, b \in Bodies : RespondWith(h, st, b)

\* stream.next().await gives Some(Ok(chunk)), chunk the next n bytes.
\* Any one emit call of the chunk's loop may fail (failAt; 0: none does).
NextChunk(h, n) ==
    /\ task[h] = "streaming"
    /\ n \in 1..Len(upstream[h])
    /\ LET chunk == Take(upstream[h], n) IN
       IF ValidUtf8(chunk)
       THEN LET text == DecodeUtf8(chunk)
                all == FoldChunk(h, buffer[h], pending_data_prefix[h],
                                 lines_seen[h], text, 0)
            IN  \E failAt \in 0..Len(all.out) :
                  LET r == IF failAt = 0 THEN all
                           ELSE FoldChunk(h, buffer[h], pending_data_prefix[h],
                                          lines_seen[h], text, failAt)
                  IN  /\ upstream' = [upstream EXCEPT ![h] = Drop(upstream[h], n)]
                      /\ buffer' = [buffer EXCEPT ![h] = r.buffer]
                      /\ pending_data_prefix' =
                             [pending_data_prefix EXCEPT ![h] = r.pending]
                      /\ lines_seen' = [lines_seen EXCEPT ![h] = @ + r.lines]
                      /\ yielded' = [yielded EXCEPT ![h] = @ \o r.lines_to_process]
                      /\ emitted' = emitted \o r.out
                      /\ task' = task
       ELSE /\ emitted' = EmitStreamError(emitted, h, <<"UTF-8 decode error">>)
            /\ TaskEnds(h, AfterChunkError)
    /\ UNCHANGED <<call, method, status, body>>

\* stream.next().await gives Some(Err(e)).
ReadError(h) ==
    /\ task[h] = "streaming"
    /\ emitted' = EmitStreamError(emitted, h, <<"Stream read error">>)
    /\ TaskEnds(h, AfterChunkError)
    /\ UNCHANGED <<call, method, status, body>>

\* stream.next().await gives None: the rest of the buffer, then stream-end.
EndOfStream(h) ==
    /\ task[h] = "streaming"
    /\ upstream[h] = <<>>
    /\ \E ok \in (IF Trim(buffer[h]) = <<>> THEN {TRUE} ELSE BOOLEAN) :
         emitted' = EmitStreamEnd(emitted \o FlushBuffer(h, buffer[h], lines_seen[h], ok), h)
    /\ TaskEnds(h, "done")
    /\ UNCHANGED <<call, method, status, body>>

Next ==
    \/ \E h \in Handles, m \in Methods : ApiStreamProxy(h, m)
    \/ \E h \in Handles : Spawn(h)
    \/ \E h \in Handles : ReturnHandle(h)
    \/ \E h \in Handles : Dispatch(h)
    \/ \E h \in Handles : SendFails(h)
    \/ \E h \in Handles : Respond(h)
    \/ \E h \in Handles : \E n \in 1..Len(upstream[h]) : NextChunk(h, n)
    \/ \E h \in Handles : ReadError(h)
    \/ \E h \in Handles : EndOfStream(h)

Spec == Init /\ [][Next]_vars

\* send().await gives Ok(response), the body one of MergeBodies.
RespondMerge(h) ==
    /\ task[h] = "sending"
    /\ \E st \in Statuses, b \in MergeBodies : RespondWith(h, st, b)

MergeNext ==
    \/ \E h \in Handles, m \in Methods : ApiStreamProxy(h, m)
    \/ \E h \in Handles : Spawn(h)
    \/ \E h \in Handles : ReturnHandle(h)
    \/ \E h \in Handles : Dispatch(h)
    \/ \E h \in Handles : SendFails(h)
    \/ \E h \in Handles : RespondMerge(h)
    \/ \E h \in Handles : \E n \in 1..Len(upstream[h]) : NextChunk(h, n)
    \/ \E h \in Handles : ReadError(h)
    \/ \E h \in Handles : EndOfStream(h)

\* The same program answering with the bodies of the label / value merge.
MergeSpec == Init /\ [][MergeNext]_vars

\* No call made yet, two stream ids to be minted.
IsolationInit == InitWith(IsolationHandles)

\* send().await gives Ok(response), for one of two concurrent calls.
RespondIsolation(h) ==
    /\ task[h] = "sending"
    /\ \E st \in IsolationStatuses, b \in IsolationBodies : RespondWith(h, st, b)

IsolationNext ==
    \/ \E h \in Handles, m \in IsolationMethods : ApiStreamProxy(h, m)
    \/ \E h \in Handles : Spawn(h)
    \/ \E h \in Handles : ReturnHandle(h)
    \/ \E h \in Handles : Dispatch(h)
    \/ \E h \in Handles : SendFails(h)
    \/ \E h \in Handles : RespondIsolation(h)
    \/ \E h \in Handles : \E n \in 1..Len(upstream[h]) : NextChunk(h, n)
    \/ \E h \in Handles : ReadError(h)
    \/ \E h \in Handles : EndOfStream(h)

\* Two calls of api_stream_proxy, their tasks interleaved in every way.
IsolationSpec == IsolationInit /\ [][IsolationNext]_vars

\* The runtime polls a spawned task, the transport resolves the request,
\* and the chunk source goes on yielding up to its end or an error.
FairSpec ==
    /\ Spec
    /\ \A h \in SoloHandles :
           /\ WF_vars(Dispatch(h))
           /\ WF_vars(SendFails(h) \/ Respond(h))
           /\ WF_vars(ReadError(h) \/ EndOfStream(h)
                        \/ \E n \in 1..Len(upstream[h]) : NextChunk(h, n))

(***************************************************************************)
(* What the properties are stated in                                       *)
(***************************************************************************)

IsChunk(e) == e.event = "stream-chunk"

IsTerminal(e) == e.event \in {"stream-end", "stream-error"}

\* The emit calls made for stream h, in order.
EventsOf(h) == SelectSeq(emitted, LAMBDA e : e.stream_id = h)

\* The stream-chunk emit calls made for stream h, in order.
ChunksOf(h) == SelectSeq(emitted, LAMBDA e : e.stream_id = h /\ IsChunk(e))

DataOf(events) == [i \in 1..Len(events) |-> events[i].data]

HasTerminal(h) == \E i \in 1..Len(emitted) : emitted[i].stream_id = h /\ IsTerminal(emitted[i])

\* The stream read its whole body and ended with stream-end.
Completed(h) ==
    /\ task[h] = "done"
    /\ \E i \in 1..Len(emitted) : emitted[i].stream_id = h /\ emitted[i].event = "stream-end"

\* Every stream-chunk emit of the stream was accepted by the sink.
AllDelivered(h) == \A i \in 1..Len(emitted) : emitted[i].stream_id = h => emitted[i].ok

\* The text lines of a body, the unterminated last one included.
LinesOfBody(b) == Lines(DecodeUtf8(b))

\* The records of a body handed over as one single chunk, then end of input.
OneChunkRecords(b) ==
    LET r == FoldChunk("ref", <<>>, FALSE, 0, DecodeUtf8(b), 0)
    IN  DataOf(r.out \o FlushBuffer("ref", r.buffer, r.lines, TRUE))

(***************************************************************************)
(* C1  Split-invariance of records                                         *)
(***************************************************************************)

\* C1: whatever way the body was split into chunks, a stream that read the
\* whole body with a working sink emitted the same stream-chunk records as
\* the split into one single chunk gives (so any two splits agree).
C1_SplitInvariance ==
    \A h \in Handles :
        Completed(h) /\ AllDelivered(h) => DataOf(ChunksOf(h)) = OneChunkRecords(body[h])

(***************************************************************************)
(* C2  At most one terminal signal, nothing after it                       *)
(***************************************************************************)

\* C2: among the emit calls of a stream at most one is a terminal signal
\* (stream-end or stream-error), and no emit call of that stream follows it.
C2_OneTerminalLast ==
    \A h \in Handles :
        \A i \in 1..Len(emitted) :
            emitted[i].stream_id = h /\ IsTerminal(emitted[i])
                => \A j \in (i + 1)..Len(emitted) : emitted[j].stream_id # h

\* A stream that emitted a stream-chunk and then its terminal signal.
C2_Witness ==
    \E h \in Handles :
        /\ task[h] = "done"
        /\ Len(EventsOf(h)) >= 2
        /\ IsChunk(EventsOf(h)[1])
        /\ IsTerminal(EventsOf(h)[Len(EventsOf(h))])

(***************************************************************************)
(* C3  Eventual termination                                                *)
(***************************************************************************)

\* C3: when the task keeps being polled, the request resolves and the chunk
\* source comes to its end or to an error (FairSpec), every stream whose
\* handle was returned eventually has its terminal signal emitted.
C3_EventuallyTerminal ==
    \A h \in SoloHandles : (call[h] = "returned") ~> HasTerminal(h)

\* A returned handle whose stream emitted records, one of them refused by
\* the sink, and then its terminal signal.
C3_Witness ==
    \E h \in Handles :
        /\ call[h] = "returned"
        /\ HasTerminal(h)
        /\ ChunksOf(h) # <<>>
        /\ ~AllDelivered(h)

(***************************************************************************)
(* C4  The handle is returned before anything happens                      *)
(***************************************************************************)

\* C4: the request of a stream is dispatched, and signals of the stream are
\* emitted, only after the handle has been returned to the caller.
C4_ReturnedBeforeDispatch ==
    \A h \in Handles :
        task[h] \in {"sending", "streaming", "done"} \/ EventsOf(h) # <<>>
            => call[h] = "returned"

(***************************************************************************)
(* C5  A refused stream-chunk is fatal                                     *)
(***************************************************************************)

\* C5: after a stream-chunk emit of a stream has failed, the only emit call
\* still made for that stream is stream-error: no further stream-chunk, no
\* stream-end.
C5_SinkFailureFatal ==
    \A i \in 1..Len(emitted) :
        IsChunk(emitted[i]) /\ ~emitted[i].ok
            => \A j \in (i + 1)..Len(emitted) :
                   emitted[j].stream_id = emitted[i].stream_id
                       => emitted[j].event = "stream-error"

(***************************************************************************)
(* C6  Upstream error short-circuits streaming                             *)
(***************************************************************************)

\* C6: a response with status >= 400 ends the task at once (no chunk of the
\* body is ever read) with exactly one emit call, a stream-error.
C6_HttpErrorShortCircuits ==
    \A h \in Handles :
        status[h] >= 400 =>
            /\ task[h] = "done"
            /\ Len(EventsOf(h)) = 1
            /\ EventsOf(h)[1].event = "stream-error"

\* A status-400 response whose body is the well-formed record `data: x`.
C6_Witness ==
    \E h \in Handles :
        /\ status[h] = 400
        /\ body[h] = Str_data \o <<" ", "x", "\n">>
        /\ task[h] = "done"

(***************************************************************************)
(* C7  Unsupported method rejected without I/O                             *)
(***************************************************************************)

\* The methods of the streaming path.
StreamingMethods ==
    { <<"G", "E", "T">>, <<"P", "O", "S", "T">>, <<"P", "U", "T">>,
      <<"D", "E", "L", "E", "T", "E">>, <<"P", "A", "T", "C", "H">> }

EqualsIgnoreCase(a, b) ==
    Len(a) = Len(b) /\ \A i \in 1..Len(a) : UpperChar(a[i]) = UpperChar(b[i])

\* C7: a call whose method is none of GET, POST, PUT, DELETE, PATCH (case
\* ignored) is rejected; a rejected call has no task, no request sent and
\* no emit call under its stream id.
C7_UnsupportedRejected ==
    \A h \in Handles :
        /\ call[h] \in {"built", "rejected"} =>
              (call[h] = "rejected"
                  <=> ~\E s \in StreamingMethods : EqualsIgnoreCase(method[h], s))
        /\ call[h] = "rejected" =>
              /\ task[h] = "none"
              /\ status[h] = 0
              /\ EventsOf(h) = <<>>

\* A call with method HEAD, which the buffered path accepts, was rejected.
C7_Witness ==
    \E h \in Handles : call[h] = "rejected" /\ method[h] = <<"H", "E", "A", "D">>

(***************************************************************************)
(* C8  A dangling label is dropped                                         *)
(***************************************************************************)

\* The numbers of the lines of body b that are a dangling label: a bare
\* `data:` line with nothing but blank lines (or nothing at all) after it.
DanglingLabels(b) ==
    LET ls == LinesOfBody(b)
    IN  {k \in 1..Len(ls) :
            /\ Trim(ls[k]) = Str_data
            /\ \A j \in (k + 1)..Len(ls) : Trim(ls[j]) = <<>>}

\* C8: when a stream has read all of a body whose last data label is
\* dangling, no stream-chunk was emitted from the label line or from a line
\* after it.
C8_DanglingLabelDropped ==
    \A h \in Handles :
        Completed(h) =>
            \A k \in DanglingLabels(body[h]) :
                \A i \in 1..Len(ChunksOf(h)) : ChunksOf(h)[i].line < k

(***************************************************************************)
(* C9  Non-data lines are ignored                                          *)
(***************************************************************************)

\* A line that is blank, a comment, or neither a `data:` line nor a line
\* that starts with `{` or `[`.  (A bare `{`/`[` line is left out here: it
\* is to be ignored or not depending on the flag.)
IsNonDataLine(l) ==
    LET t == Trim(l)
    IN  \/ t = <<>>
        \/ StartsWith(t, <<":">>)
        \/ /\ ~StartsWith(t, Str_data)
           /\ ~StartsWith(t, <<"{">>)
           /\ ~StartsWith(t, <<"[">>)

\* C9: no stream-chunk carries the text of a non-data line of the body.
C9_NonDataIgnored ==
    \A h \in Handles :
        \A i \in 1..Len(ChunksOf(h)) :
            ~IsNonDataLine(LinesOfBody(body[h])[ChunksOf(h)[i].line])

(***************************************************************************)
(* C10  Record format                                                      *)
(***************************************************************************)

\* `data: `, a non-empty payload without whitespace at either end and
\* without a newline inside, one "\n".
IsNormalizedRecord(d) ==
    LET prefix == Str_data \o <<" ">>
        payload == SubSeq(d, Len(prefix) + 1, Len(d) - 1)
    IN  /\ Len(d) >= Len(prefix) + 2
        /\ StartsWith(d, prefix)
        /\ d[Len(d)] = "\n"
        /\ ~IsWhitespace(payload[1])
        /\ ~IsWhitespace(payload[Len(payload)])
        /\ \A i \in 1..Len(payload) : payload[i] # "\n"

\* C10: the data of every stream-chunk emitted is a normalized record.
C10_RecordFormat ==
    \A i \in 1..Len(emitted) : IsChunk(emitted[i]) => IsNormalizedRecord(emitted[i].data)

(***************************************************************************)
(* C11  In order, exactly once                                             *)
(***************************************************************************)

\* A `data:` line with a non-whitespace value after the colon.
IsLabelWithValue(l) == StartsWith(Trim(l), Str_data) /\ Trim(l) # Str_data

\* C11: the stream-chunk records of a stream come in the order of the body
\* lines their text was taken from and no line gave its text to two records;
\* a stream that read its whole body with a working sink emitted a record
\* from every label-with-value line.
C11_InOrderExactlyOnce ==
    \A h \in Handles :
        LET cs == ChunksOf(h)
            ls == LinesOfBody(body[h])
        IN  /\ \A i, j \in 1..Len(cs) : i < j => cs[i].line < cs[j].line
            /\ Completed(h) /\ AllDelivered(h) =>
                   \A k \in 1..Len(ls) :
                       IsLabelWithValue(ls[k]) => \E i \in 1..Len(cs) : cs[i].line = k

(***************************************************************************)
(* C12  Line reassembly correctness                                        *)
(***************************************************************************)

\* The text of the bytes the chunk source has yielded so far.
ConsumedText(h) == DecodeUtf8(Take(body[h], Len(body[h]) - Len(upstream[h])))

\* The complete lines the reassembler yields for a text fed as one chunk.
WholeLines(text) == FoldChunk("ref", <<>>, FALSE, 0, text, 0).lines_to_process

DecodeErrorOf(h) ==
    \E i \in 1..Len(emitted) :
        /\ emitted[i].stream_id = h
        /\ emitted[i].event = "stream-error"
        /\ emitted[i].data = <<"UTF-8 decode error">>

\* C12: wherever the chunk boundaries fall, the complete lines yielded from
\* the chunks fed so far are the complete lines of the same bytes fed as one
\* chunk; in particular a body that is valid text as a whole is reassembled
\* without a decode error, also when a boundary falls inside a character.
C12_LineReassembly ==
    \A h \in Handles :
        /\ task[h] = "streaming" => yielded[h] = WholeLines(ConsumedText(h))
        /\ ValidUtf8(body[h]) => ~DecodeErrorOf(h)

(***************************************************************************)
(* C13  Label/value merge                                                  *)
(***************************************************************************)

\* The numbers of the lines of body b that are a bare `data:` label with a
\* `{` / `[` value line right after it.
MergePairs(b) ==
    LET ls == LinesOfBody(b)
    IN  {k \in 1..(Len(ls) - 1) : Trim(ls[k]) = Str_data /\ IsJsonStart(Trim(ls[k + 1]))}

\* The records of the single terminated line `data: <value>`.
SingleLineRecords(value) ==
    DataOf(FoldChunk("ref", <<>>, FALSE, 0, FormatData(value) \o <<"\n">>, 0).out)

\* C13: when a stream has read all of a body with a working sink, every bare
\* `data:` line followed by a `{` / `[` line gave exactly one record from
\* the value line, `data: <value>` and a newline, which is the record of the
\* single line `data: <value>`: whether both lines came in one chunk, in two,
\* or the value was the unterminated end of the body.
C13_LabelValueMerge ==
    \A h \in Handles :
        Completed(h) /\ AllDelivered(h) =>
            \A k \in MergePairs(body[h]) :
                LET value == Trim(LinesOfBody(body[h])[k + 1])
                    from == SelectSeq(ChunksOf(h), LAMBDA e : e.line = k + 1)
                IN  /\ Len(from) = 1
                    /\ from[1].data = Str_data \o <<" ">> \o value \o <<"\n">>
                    /\ <<from[1].data>> = SingleLineRecords(value)

\* The body `data:`, newline, `{}` without a newline was read to its end
\* and gave one record.
C13_Witness ==
    \E h \in Handles :
        /\ Completed(h)
        /\ AllDelivered(h)
        /\ body[h] = Str_data \o <<"\n", "{", "}">>
        /\ Len(ChunksOf(h)) = 1

(***************************************************************************)
(* C14  A label with a value clears the flag                               *)
(***************************************************************************)

\* A line that starts with `{` or `[` once trimmed (it carries no label).
IsBareValue(l) == IsJsonStart(Trim(l))

\* C14: with a working sink, when the last line the loop was given is a
\* `data:` line with a value, pending_data_prefix is false; and no record is
\* taken from a bare `{` / `[` line that comes right after such a line.
C14_LabelWithValueClearsFlag ==
    \A h \in Handles :
        /\ (/\ task[h] = "streaming"
            /\ AllDelivered(h)
            /\ yielded[h] # <<>>
            /\ IsLabelWithValue(yielded[h][Len(yielded[h])]))
               => ~pending_data_prefix[h]
        /\ \A i \in 1..Len(ChunksOf(h)) :
               LET k == ChunksOf(h)[i].line
                   ls == LinesOfBody(body[h])
               IN  ~(k > 1 /\ IsBareValue(ls[k]) /\ IsLabelWithValue(ls[k - 1]))

(***************************************************************************)
(* C15  Blank and comment lines leave the flag alone                       *)
(***************************************************************************)

\* The pairs <<k, m>> of line numbers of body b where line k is a bare
\* `data:` label, line m a `{` / `[` value line, and the lines between them
\* (at least one) are all blank or comment lines.
GapPairs(b) ==
    LET ls == LinesOfBody(b)
    IN  {p \in (1..Len(ls)) \X (1..Len(ls)) :
            /\ p[1] + 1 < p[2]
            /\ Trim(ls[p[1]]) = Str_data
            /\ IsJsonStart(Trim(ls[p[2]]))
            /\ \A j \in (p[1] + 1)..(p[2] - 1) : IsSkipped(Trim(ls[j]))}

\* C15: when a stream has read all of a body with a working sink, a bare
\* `data:` label, blank or comment lines and then a `{` / `[` value line
\* gave exactly one record from the value line, `data: <value>` and a
\* newline, and no record from the label or the lines in between: for every
\* split of the body into chunks.
C15_BlankAndCommentKeepFlag ==
    \A h \in Handles :
        Completed(h) /\ AllDelivered(h) =>
            \A p \in GapPairs(body[h]) :
                LET value == Trim(LinesOfBody(body[h])[p[2]])
                    from == SelectSeq(ChunksOf(h), LAMBDA e : e.line = p[2])
                IN  /\ Len(from) = 1
                    /\ from[1].data = Str_data \o <<" ">> \o value \o <<"\n">>
                    /\ \A i \in 1..Len(ChunksOf(h)) :
                           ~(ChunksOf(h)[i].line \in p[1]..(p[2] - 1))

(***************************************************************************)
(* C16  End-of-input flush                                                 *)
(***************************************************************************)

\* The records of the loop for the buffer taken as one more complete line.
FinalLineRecords(h) ==
    DataOf(FoldChunk(h, buffer[h], pending_data_prefix[h], lines_seen[h], <<"\n">>, 0).out)

\* C16: when the input ends, the records emitted for what is left in the
\* buffer (with a working sink) are the records the same content gives as a
\* complete line, that is with its terminator appended.
C16_FlushIsFinalLine ==
    [][\A h \in Handles :
           (/\ task[h] = "streaming"
            /\ task'[h] = "done"
            /\ Len(emitted') > Len(emitted)
            /\ emitted'[Len(emitted')].event = "stream-end"
            /\ \A i \in (Len(emitted) + 1)..Len(emitted') : emitted'[i].ok)
           => DataOf(SubSeq(emitted', Len(emitted) + 1, Len(emitted') - 1))
                  = FinalLineRecords(h)]_vars

(***************************************************************************)
(* C17  Carry-over buffer invariant                                        *)
(***************************************************************************)

\* What follows the last "\n" of a text (the whole text when it has none).
RECURSIVE TrailingFragment(_)
TrailingFragment(text) ==
    LET n == FindNewline(text, 1)
    IN  IF n = 0 THEN text ELSE TrailingFragment(Drop(text, n))

\* C17: between chunks the buffer has no line terminator in it and holds
\* exactly the unterminated end of the text received so far (nothing when
\* that text ends with a terminator).
C17_BufferInvariant ==
    \A h \in Handles :
        task[h] = "streaming" =>
            /\ FindNewline(buffer[h], 1) = 0
            /\ buffer[h] = TrailingFragment(ConsumedText(h))

\* A chunk with complete lines and the start of a further line was folded in.
C17_Witness ==
    \E h \in Handles :
        /\ task[h] = "streaming"
        /\ lines_seen[h] > 0
        /\ buffer[h] # <<>>

(***************************************************************************)
(* C18  Fatal chunk errors halt the pipeline                               *)
(***************************************************************************)

\* A stream-error of stream h for a chunk that did not decode or for a
\* read error of the chunk source.
IsChunkError(e, h) ==
    /\ e.stream_id = h
    /\ e.event = "stream-error"
    /\ e.data \in {<<"UTF-8 decode error">>, <<"Stream read error">>}

\* C18: the step in which a chunk fails to decode or the chunk source
\* reports an error emits the stream-error and nothing else (no stream-chunk
\* of that chunk, no flush of the buffer, no stream-end), leaves what was
\* emitted before as it was, and ends the task; a task that has ended emits
\* nothing more.
C18_FatalChunkErrorHalts ==
    [][\A h \in Handles :
           /\ (/\ task[h] = "streaming"
               /\ Len(emitted') > Len(emitted)
               /\ IsChunkError(emitted'[Len(emitted')], h))
              => /\ emitted' = Append(emitted, emitted'[Len(emitted')])
                 /\ task'[h] = "done"
           /\ task[h] = "done" =>
                  /\ task'[h] = "done"
                  /\ SelectSeq(emitted', LAMBDA e : e.stream_id = h) = EventsOf(h)]_vars

\* The first line of a body gave its record, then the chunk with the second
\* line, cut inside its two-byte character, failed to decode.
C18_Witness ==
    \E h \in Handles :
        /\ task[h] = "done"
        /\ body[h] = Str_data \o <<" ", "x", "\n", " ">> \o Str_data \o <<"xC3", "xA9", " ", "\n">>
        /\ Len(EventsOf(h)) = 2
        /\ IsChunk(EventsOf(h)[1])
        /\ EventsOf(h)[2].data = <<"UTF-8 decode error">>

(***************************************************************************)
(* C20  Reassembly conservation                                            *)
(***************************************************************************)

\* Lines put back together, each followed by its terminator.
RECURSIVE JoinLines(_)
JoinLines(ls) ==
    IF ls = <<>> THEN <<>> ELSE Head(ls) \o <<"\n">> \o JoinLines(Tail(ls))

\* C20: while every chunk has decoded, the lines given to the loop so far,
\* each with its terminator, followed by the buffer, are the text of the
\* chunks received so far: no character lost, doubled or moved.
C20_ReassemblyConservation ==
    \A h \in Handles :
        task[h] = "streaming" => JoinLines(yielded[h]) \o buffer[h] = ConsumedText(h)

\* One line has been given to the loop, the start of the next one is in the
\* buffer and the rest of the body is still to come.
C20_Witness ==
    \E h \in Handles :
        /\ task[h] = "streaming"
        /\ Len(yielded[h]) = 1
        /\ yielded[h][1] # <<>>
        /\ buffer[h] # <<>>
        /\ upstream[h] # <<>>

(***************************************************************************)
(* C19  Stream isolation                                                   *)
(***************************************************************************)

\* What a task that runs alone can have emitted for stream h from the point
\* where `up` is still to be read: the emit calls so far, with `done` true
\* once the task has ended.  Every split into chunks, every refused emit
\* and a read error at every point are followed.
RECURSIVE SoloLogs(_, _, _, _, _, _)
SoloLogs(h, up, buf, pending, seen, log) ==
    {[log |-> log, done |-> FALSE],
     [log |-> EmitStreamError(log, h, <<"Stream read error">>), done |-> TRUE]}
    \cup
    (IF up = <<>>
     THEN {[log |-> EmitStreamEnd(log \o FlushBuffer(h, buf, seen, ok), h), done |-> TRUE] :
              ok \in BOOLEAN}
     ELSE UNION {
            IF ValidUtf8(Take(up, n))
            THEN UNION {
                   LET r == FoldChunk(h, buf, pending, seen, DecodeUtf8(Take(up, n)), failAt)
                   IN  IF failAt > Len(r.out) THEN {}
                       ELSE SoloLogs(h, Drop(up, n), r.buffer, r.pending,
                                     seen + r.lines, log \o r.out) :
                   failAt \in 0..Len(up) }
            ELSE {[log |-> EmitStreamError(log, h, <<"UTF-8 decode error">>),
                   done |-> TRUE]} :
            n \in 1..Len(up) })

\* The same for a whole task, from the send on, by status and body.
SoloRuns ==
    [h \in IsolationHandles, st \in {0} \cup IsolationStatuses,
     b \in {<<>>} \cup IsolationBodies |->
        IF st = 0
        THEN {[log |-> <<>>, done |-> FALSE],
              [log |-> EmitStreamError(<<>>, h, <<"HTTP request failed">>), done |-> TRUE]}
        ELSE IF IsHttpError(st)
        THEN {[log |-> EmitStreamError(<<>>, h, <<"HTTP Error: ", ToString(st)>>),
               done |-> TRUE]}
        ELSE SoloLogs(h, b, <<>>, FALSE, 0, <<>>)]

\* C19: with two streams running side by side, in every interleaving, every
\* emit call carries the id of one of the two streams, the emit calls made
\* under the id of a stream are a sequence its task can produce when it
\* runs alone on the same response, and the buffer of a task holds text of
\* its own response only.
C19_StreamIsolation ==
    /\ \A i \in 1..Len(emitted) : emitted[i].stream_id \in Handles
    /\ \A h \in Handles :
           /\ [log |-> EventsOf(h), done |-> task[h] = "done"]
                  \in SoloRuns[h, status[h], body[h]]
           /\ task[h] = "streaming" => buffer[h] = TrailingFragment(ConsumedText(h))

\* The tasks ran interleaved: a record of the first stream, emitted while
\* its task is still reading, lies between a record and a later emit call of
\* the second stream.
C19_Witness ==
    \E i, j, k \in 1..Len(emitted) :
        /\ i < j /\ j < k
        /\ emitted[i].stream_id = "h2"
        /\ emitted[j].stream_id = "h1"
        /\ emitted[k].stream_id = "h2"
        /\ IsChunk(emitted[i])
        /\ IsChunk(emitted[j])
        /\ task["h1"] = "streaming"

====
